---- MODULE Spec2Model ----
(***************************************************************************)
(* Order lifecycle, delegation, daily-session gate and transfer protocol   *)
(* of the multi-branch point of sale (app/pos/views.py, app/models.py).    *)
(*                                                                         *)
(* The database is the state: one variable per table.  A request handler   *)
(* is one action, except create_order (new order) and save_order_changes,  *)
(* whose SELECTs and whose flush+commit are separate steps so that two     *)
(* requests served by different workers interleave as they do under the    *)
(* configured READ COMMITTED isolation (config.py:60).  A request that     *)
(* takes one of its handler's early returns changes nothing; the early     *)
(* returns of a handler are the operator <handler>_error.                  *)
(*                                                                         *)
(* Four specifications run the handlers:                                   *)
(*   Spec         every handler that writes an order, one request at a time*)
(*   SpecCreate   order creation and the assignment directory, concurrent  *)
(*   SpecEdit     order creation and edits, edits concurrent               *)
(*   SpecSession  orders, reports and the logout check as the clock runs   *)
(***************************************************************************)
EXTENDS Integers, Sequences, FiniteSets, TLC

\* ---------------------------------------------------------------- bounds
MaxOrders   == 2      \* Order rows after which no further order is begun
MaxTime     == 2      \* readings of the clock (datetime.utcnow)
MaxItems    == 2      \* OrderItem rows per order
MaxEdits    == 1      \* OrderEditHistory rows after which no further edit is begun
MaxTransfers == 1     \* [TRANSFERRED] notes per order
NumWorkers  == 2      \* request-handling workers
MaxReports  == 1      \* DAILY_REPORT_GENERATED rows per cashier
MaxLogouts  == 1      \* logout rows per user
MaxResets   == 2      \* audit rows of each kind of counter reset
MaxSessions == 2      \* CashierSession rows after which no further session request is begun

Workers == 1 .. NumWorkers

\* ------------------------------------------------------- users (static)
\* users 1 and 2 are cashiers, user 3 is a waiter; all of branch 1
Users    == {1, 2, 3}
Branches == {1}
None     == 0

UserRole(u) == IF u \in {1, 2} THEN "CASHIER" ELSE "WAITER"

UserBranch(u) == 1

\* the super user, the one caller of the routes that reset the counters
SuperUser == 4

Cashiers == {u \in Users : UserRole(u) = "CASHIER"}

OrderStatus == {"PENDING", "PAID", "CANCELLED"}

ServiceType == {"on_table", "take_away", "delivery", "card"}

PaymentMethod == {"cash", "card", "qr_code"}

\* menu: item id -> price; an id outside the menu is not found
MenuItems == {1}
MenuPrice(i) == 2

\* service types sent by the clients of the model
ServiceTypeInputs == {"on_table", "delivery"}

VARIABLES
    now,          \* datetime.utcnow()
    orders,       \* table orders (with its order_items): sequence of rows, id = index
    counters,     \* table order_counters: branch -> current_counter, or NoRow
    assignments,  \* table waiter_cashier_assignments: sequence of rows
    sessions,     \* table cashier_sessions: sequence of rows
    history,      \* table order_edit_history: sequence of rows
    audit,        \* table audit_logs: <<user, action>> -> number of rows
    req,          \* per worker: the request it serves between its reads and its commit
    rooms,        \* socket rooms: user -> the rooms its client has joined
    last_reset_date,  \* order_counters.last_reset_date: branch -> date, or None
    cashier_pins, \* table cashier_pins: cashier -> its row (present or not)
    admin_pins    \* table admin_pin_codes, pin_type order_editing: branch -> its row

vars == <<now, orders, counters, assignments, sessions, history, audit, req, rooms,
          last_reset_date, cashier_pins, admin_pins>>

NoRow == -1

Idle == [op |-> "idle", user |-> None, order_id |-> None, assigned |-> None,
         items |-> <<>>, read |-> None, loaded |-> None]

AuditActions == {"ORDER_EDITED", "ORDER_TRANSFERRED", "DAILY_REPORT_MARKED",
                 "DAILY_REPORT_GENERATED", "logout",
                 "RESET_ORDER_COUNTERS", "RESET_BRANCH_COUNTER"}

AuditLog(log, u, action, n) == [log EXCEPT ![<<u, action>>] = @ + n]

\* ---------------------------------------------------------------- helpers
RECURSIVE SumPrices(_)
SumPrices(s) ==
    IF s = <<>> THEN 0
    ELSE (IF Head(s).is_deleted THEN 0 ELSE Head(s).total_price) + SumPrices(Tail(s))

OrderIds == 1 .. Len(orders)

\* orders of today created by the cashier (Order.cashier_id == cashier_id)
TodayOrderCount(ords, c) == Cardinality({i \in 1 .. Len(ords) : ords[i].cashier_id = c})

\* first active session of the cashier today, or None
ActiveSession(sess, c) ==
    LET S == {i \in 1 .. Len(sess) : sess[i].cashier_id = c /\ sess[i].is_active}
    IN IF S = {} THEN None ELSE CHOOSE i \in S : \A j \in S : i <= j

\* CashierSession.get_or_create_today_session: the table after the call
get_or_create_today_session(sess, ords, c) ==
    IF ActiveSession(sess, c) # None THEN sess
    ELSE Append(sess, [cashier_id |-> c,
                       initial_order_count |-> TodayOrderCount(ords, c),
                       current_order_count |-> TodayOrderCount(ords, c),
                       daily_report_printed |-> FALSE,
                       report_printed_at |-> None,
                       is_active |-> TRUE])

\* CashierSession.update_order_count
update_order_count(sess, i, count) ==
    [sess EXCEPT ![i].current_order_count = count]

\* CashierSession.mark_report_printed
mark_report_printed(sess, i, t) ==
    [sess EXCEPT ![i].daily_report_printed = TRUE, ![i].report_printed_at = t]

\* create_order's session tracking for a cashier, after the order is committed
TrackSession(sess, ords, u) ==
    IF UserRole(u) # "CASHIER" THEN sess
    ELSE LET s1 == get_or_create_today_session(sess, ords, u)
         IN update_order_count(s1, ActiveSession(s1, u), TodayOrderCount(ords, u))

\* the first row of waiter_cashier_assignments for the waiter and branch
\* (query.filter_by(...).first()), or None
AssignmentRow(waiter_id, branch_id) ==
    LET S == {i \in 1 .. Len(assignments) :
                 /\ assignments[i].waiter_id = waiter_id
                 /\ assignments[i].branch_id = branch_id}
    IN IF S = {} THEN None ELSE CHOOSE i \in S : \A j \in S : i <= j

\* WaiterCashierAssignment.get_assignment_for_waiter, as the cashier the row
\* names; None without a row
get_assignment_for_waiter(waiter_id, branch_id) ==
    IF AssignmentRow(waiter_id, branch_id) = None THEN None
    ELSE assignments[AssignmentRow(waiter_id, branch_id)].assigned_cashier_id

\* the worker that takes the next two-step request
FreeWorker == CHOOSE w \in Workers :
                 /\ req[w].op = "idle"
                 /\ \A v \in Workers : req[v].op = "idle" => w <= v

\* ---------------------------------------------------------------- clock
Tick ==
    /\ now < MaxTime
    /\ now' = now + 1
    /\ UNCHANGED <<orders, counters, assignments, sessions, history, audit, req, rooms, last_reset_date, cashier_pins, admin_pins>>

\* ------------------------------------------------------------ create_order
UnknownItem == 2

ItemInputs == {<<>>} \cup {<<i>> : i \in MenuItems \cup {UnknownItem}}

NewItem(i) == [total_price |-> MenuPrice(i), is_deleted |-> FALSE, is_new |-> FALSE]

\* the existing PENDING order of the user's branch named by existing_order_id
existing_order(u, is_adding_items, existing_order_id) ==
    IF /\ is_adding_items
       /\ existing_order_id \in OrderIds
       /\ orders[existing_order_id].branch_id = UserBranch(u)
       /\ orders[existing_order_id].status = "PENDING"
    THEN existing_order_id
    ELSE None

\* create_order's early returns without the lookup of the waiter's assignment
create_order_error_unassigned(u, items, is_adding_items, existing_order_id) ==
    IF items = <<>> THEN "no_items"
    ELSE IF is_adding_items /\ existing_order(u, is_adding_items, existing_order_id) = None
    THEN "no_existing_order"
    ELSE IF \E k \in 1 .. Len(items) : items[k] \notin MenuItems THEN "item_not_found"
    ELSE ""

\* the early returns of create_order, in the order of the code; "" when none
create_order_error(u, items, is_adding_items, existing_order_id) ==
    IF items = <<>> THEN "no_items"
    ELSE IF is_adding_items /\ existing_order(u, is_adding_items, existing_order_id) = None
    THEN "no_existing_order"
    ELSE IF \E k \in 1 .. Len(items) : items[k] \notin MenuItems THEN "item_not_found"
    ELSE IF UserRole(u) = "WAITER" /\ get_assignment_for_waiter(u, UserBranch(u)) = None
    THEN "no_cashier_assignment"
    ELSE ""

\* OrderCounter.get_next_counter, the SELECT: the value the request read
get_next_counter_read(b) == counters[b]

\* OrderCounter.get_next_counter, the value it writes at flush and returns
get_next_counter(read) == IF read = NoRow THEN 1 ELSE read + 1

\* The handler up to its first write.  A request that hits an early return
\* changes nothing.  Adding items to an existing order is one step; a new
\* order reads the counter here and is flushed and committed in
\* create_order_commit.  The payload fields only the INSERT uses
\* (service_type, the assigned_cashier_id a cashier sends) are drawn there.
create_order(u, items, is_adding_items, existing_order_id) ==
    LET ex == existing_order(u, is_adding_items, existing_order_id)
        new == [k \in 1 .. Len(items) |-> NewItem(items[k])]
    IN
    IF create_order_error(u, items, is_adding_items, existing_order_id) # ""
    THEN UNCHANGED vars
    ELSE IF ex # None
    THEN /\ Len(orders[ex].order_items) + Len(items) <= MaxItems
         /\ orders' = [orders EXCEPT
                ![ex].total_amount = @ + SumPrices(new),
                ![ex].order_items = @ \o new,
                ![ex].notes.items_added = TRUE]
         /\ sessions' = TrackSession(sessions, orders', u)
         /\ UNCHANGED <<now, counters, assignments, history, audit, req, rooms, last_reset_date, cashier_pins, admin_pins>>
    ELSE /\ \E w \in Workers : req[w].op = "idle"
         /\ Len(orders) < MaxOrders
         /\ req' = [req EXCEPT ![FreeWorker] =
                [Idle EXCEPT !.op = "create_order", !.user = u, !.items = new,
                    !.assigned = IF UserRole(u) = "WAITER"
                                 THEN get_assignment_for_waiter(u, UserBranch(u))
                                 ELSE None,
                    !.read = get_next_counter_read(UserBranch(u))]]
         /\ UNCHANGED <<now, orders, counters, assignments, sessions, history, audit, rooms, last_reset_date, cashier_pins, admin_pins>>

\* every new order starting as a request to a cashier
order_status_pending(u) == "PENDING"

\* the status of a new order: a waiter's awaits the cashier, any other is paid
order_status(u) == IF UserRole(u) = "WAITER" THEN "PENDING" ELSE "PAID"

\* the flush of the counter and the commit of the counter and the new order
create_order_commit(w, service_type, assigned_cashier_id) ==
    /\ req[w].op = "create_order"
    /\ req' = [req EXCEPT ![w] = Idle]
    /\ LET r == req[w]
           b == UserBranch(r.user)
           n == get_next_counter(r.read)
           waiter == UserRole(r.user) = "WAITER"
           status == order_status(r.user)
           order == [order_counter |-> n,
                     total_amount |-> SumPrices(r.items),
                     payment_method |-> "none",
                     service_type |-> service_type,
                     status |-> status,
                     notes |-> [waiter_order |-> waiter, items_added |-> FALSE,
                                transferred |-> 0],
                     created_at |-> now,
                     paid_at |-> IF status = "PAID" THEN now ELSE None,
                     cleared_from_waiter_requests |-> FALSE,
                     last_edited_at |-> None,
                     last_edited_by |-> None,
                     edit_count |-> 0,
                     branch_id |-> b,
                     cashier_id |-> r.user,
                     assigned_cashier_id |-> IF waiter THEN r.assigned
                                             ELSE assigned_cashier_id,
                     order_items |-> r.items]
       IN
       /\ IF r.read = NoRow /\ counters[b] # NoRow
          THEN \* INSERT violates unique_counter_per_branch: rollback, 500
               UNCHANGED <<now, orders, counters, assignments, sessions, history, audit, rooms, last_reset_date, cashier_pins, admin_pins>>
          ELSE /\ counters' = [counters EXCEPT ![b] = n]
               /\ orders' = Append(orders, order)
               /\ sessions' = TrackSession(sessions, orders', r.user)
               /\ UNCHANGED <<now, assignments, history, audit, rooms, last_reset_date, cashier_pins, admin_pins>>

\* --------------------------------------------------------- mark_order_paid
\* mark_order_paid's early returns without the test of the status
mark_order_paid_error_unguarded(u, order_id) ==
    IF UserRole(u) \notin {"CASHIER", "BRANCH_ADMIN", "SUPER_USER"} THEN "access_denied"
    ELSE IF order_id \notin OrderIds THEN "not_found"
    ELSE IF UserRole(u) # "SUPER_USER" /\ orders[order_id].branch_id # UserBranch(u)
    THEN "different_branch"
    ELSE ""

\* the early returns of mark_order_paid; "" when none
mark_order_paid_error(u, order_id) ==
    IF UserRole(u) \notin {"CASHIER", "BRANCH_ADMIN", "SUPER_USER"} THEN "access_denied"
    ELSE IF order_id \notin OrderIds THEN "not_found"
    ELSE IF UserRole(u) # "SUPER_USER" /\ orders[order_id].branch_id # UserBranch(u)
    THEN "different_branch"
    ELSE IF orders[order_id].status = "PAID" THEN "already_paid"
    ELSE ""

mark_order_paid(u, order_id) ==
    IF mark_order_paid_error(u, order_id) # ""
    THEN UNCHANGED vars
    ELSE /\ orders' = [orders EXCEPT ![order_id].status = "PAID",
                                     ![order_id].paid_at = now]
         /\ UNCHANGED <<now, counters, assignments, sessions, history, audit, req, rooms, last_reset_date, cashier_pins, admin_pins>>

\* ------------------------------------------------- assignment directory
\* the early returns of assign_cashier_to_waiter; is_valid is the answer of
\* CashierPin.verify_cashier_pin for the PIN sent
assign_cashier_to_waiter_error_unverified(u, cashier_id, is_valid) ==
    IF UserRole(u) # "WAITER" THEN "access_denied"
    ELSE IF cashier_id = None THEN "select_cashier"
    ELSE IF ~ (/\ cashier_id \in Users
               /\ UserBranch(cashier_id) = UserBranch(u)
               /\ UserRole(cashier_id) = "CASHIER")
    THEN "invalid_cashier"
    ELSE ""

assign_cashier_to_waiter_error(u, cashier_id, is_valid) ==
    IF UserRole(u) # "WAITER" THEN "access_denied"
    ELSE IF cashier_id = None THEN "select_cashier"
    ELSE IF ~ (/\ cashier_id \in Users
               /\ UserBranch(cashier_id) = UserBranch(u)
               /\ UserRole(cashier_id) = "CASHIER")
    THEN "invalid_cashier"
    ELSE IF ~ is_valid THEN "invalid_pin"
    ELSE ""

\* set_assignment adding a row at every call
set_assignment_insert(waiter_id, cashier_id) ==
    Append(assignments, [waiter_id |-> waiter_id,
                         branch_id |-> UserBranch(waiter_id),
                         assigned_cashier_id |-> cashier_id])

\* WaiterCashierAssignment.set_assignment: the row the query finds is
\* overwritten; a row is added when it finds none
set_assignment(waiter_id, cashier_id) ==
    LET i == AssignmentRow(waiter_id, UserBranch(waiter_id))
    IN  IF i # None
        THEN [assignments EXCEPT ![i].assigned_cashier_id = cashier_id]
        ELSE Append(assignments, [waiter_id |-> waiter_id,
                                  branch_id |-> UserBranch(waiter_id),
                                  assigned_cashier_id |-> cashier_id])

\* WaiterCashierAssignment.clear_assignment: the row the query finds is deleted
clear_assignment(waiter_id) ==
    LET i == AssignmentRow(waiter_id, UserBranch(waiter_id))
    IN  IF i = None THEN assignments
        ELSE [k \in 1 .. Len(assignments) - 1 |->
                 IF k < i THEN assignments[k] ELSE assignments[k + 1]]

assign_cashier_to_waiter(u, cashier_id, is_valid) ==
    IF assign_cashier_to_waiter_error(u, cashier_id, is_valid) # ""
    THEN UNCHANGED vars
    ELSE /\ assignments' = set_assignment(u, cashier_id)
         /\ UNCHANGED <<now, orders, counters, sessions, history, audit, req, rooms, last_reset_date, cashier_pins, admin_pins>>

clear_assigned_cashier(u) ==
    IF UserRole(u) = "WAITER" /\ AssignmentRow(u, UserBranch(u)) # None
    THEN /\ assignments' = clear_assignment(u)
         /\ UNCHANGED <<now, orders, counters, sessions, history, audit, req, rooms, last_reset_date, cashier_pins, admin_pins>>
    ELSE UNCHANGED vars

\* ------------------------------------------------------ save_order_changes
\* total_price values an edit sends for an item
EditPrices == {1, 2}

\* one entry of the request's items for an existing item: left out of the
\* request, or sent with a total_price and the is_deleted flag
ItemEdits == {[present |-> FALSE, total_price |-> 0, is_deleted |-> FALSE]} \cup
             {[present |-> TRUE, total_price |-> p, is_deleted |-> d] :
                 p \in EditPrices, d \in BOOLEAN}

\* the exemption widened to every service type
can_edit_paid_any(order) ==
    \/ order.service_type \in ServiceType
    \/ order.payment_method = "card"

can_edit_paid(order) ==
    \/ order.service_type \in {"delivery", "take_away"}
    \/ order.payment_method = "card"

\* the early returns of save_order_changes; well_formed is FALSE for a
\* payload that makes the item loop raise (rollback, failure response)
save_order_changes_error(u, order_id, well_formed) ==
    IF UserRole(u) # "CASHIER" THEN "access_denied"
    ELSE IF order_id \notin OrderIds THEN "not_found"
    ELSE IF /\ orders[order_id].cashier_id # u
            /\ orders[order_id].assigned_cashier_id # u
    THEN "not_assigned_to_you"
    ELSE IF orders[order_id].status = "PENDING" THEN
        (IF well_formed THEN "" ELSE "exception")
    ELSE IF orders[order_id].status = "PAID" /\ can_edit_paid(orders[order_id]) THEN
        (IF well_formed THEN "" ELSE "exception")
    ELSE IF /\ orders[order_id].service_type = "on_table"
            /\ orders[order_id].status = "PAID"
    THEN "paid_on_table"
    ELSE "not_editable"

\* the handler up to its commit: the order and its items are loaded here
save_order_changes(u, order_id, well_formed) ==
    IF save_order_changes_error(u, order_id, well_formed) # ""
    THEN UNCHANGED vars
    ELSE /\ \E w \in Workers : req[w].op = "idle"
         /\ Len(history) < MaxEdits
         /\ req' = [req EXCEPT ![FreeWorker] =
                [Idle EXCEPT !.op = "save_order_changes", !.user = u,
                    !.order_id = order_id, !.loaded = orders[order_id]]]
         /\ UNCHANGED <<now, orders, counters, assignments, sessions, history, audit, rooms, last_reset_date, cashier_pins, admin_pins>>

\* the UPDATE of a column the unit of work emits only when the attribute
\* differs from the value it loaded
Written(new, loaded, current) == IF new = loaded THEN current ELSE new

\* an existing item after an edit that leaves alone what the request leaves
\* out
EditedItem_omitted_kept(e, loaded, current) ==
    [total_price |-> IF e.present
                     THEN Written(e.total_price, loaded.total_price, current.total_price)
                     ELSE current.total_price,
     is_deleted  |-> IF e.present
                     THEN Written(e.is_deleted, loaded.is_deleted, current.is_deleted)
                     ELSE current.is_deleted,
     is_new      |-> current.is_new]

\* an existing item after the edit: updated from the request, or flagged
\* deleted when the request leaves it out
EditedItem(e, loaded, current) ==
    [total_price |-> IF e.present
                     THEN Written(e.total_price, loaded.total_price, current.total_price)
                     ELSE current.total_price,
     is_deleted  |-> Written(IF e.present THEN e.is_deleted ELSE TRUE,
                             loaded.is_deleted, current.is_deleted),
     is_new      |-> current.is_new]

RECURSIVE NewTotal(_)
NewTotal(edits) ==
    IF edits = <<>> THEN 0
    ELSE (IF Head(edits).present /\ ~ Head(edits).is_deleted
          THEN Head(edits).total_price ELSE 0) + NewTotal(Tail(edits))

\* the edit_count left as loaded
NextEditCount_kept(loaded) == loaded.edit_count

\* the edit_count the handler stores
NextEditCount(loaded) == loaded.edit_count + 1

\* the flush and commit of save_order_changes; edits has one entry per item
\* the request loaded, new_price is the total_price of an item the request
\* adds (None: it adds none), original_total is the payload's original_total
save_order_changes_commit(w, edits, new_price, original_total) ==
    /\ req[w].op = "save_order_changes"
    /\ LET r == req[w]
           id == r.order_id
           cur == orders[id]
           seen == Len(r.loaded.order_items)
           new_total == NewTotal(edits) + new_price
           items == [k \in 1 .. Len(cur.order_items) |->
                        IF k <= seen
                        THEN EditedItem(edits[k], r.loaded.order_items[k],
                                        cur.order_items[k])
                        ELSE cur.order_items[k]]
           added == IF new_price = None THEN <<>>
                    ELSE <<[total_price |-> new_price, is_deleted |-> FALSE,
                            is_new |-> TRUE]>>
       IN
       /\ Len(edits) = seen
       /\ Len(cur.order_items) + Len(added) <= MaxItems
       /\ orders' = [orders EXCEPT
              ![id].order_items = items \o added,
              ![id].total_amount = Written(new_total, r.loaded.total_amount, @),
              ![id].last_edited_at = Written(now, r.loaded.last_edited_at, @),
              ![id].last_edited_by = Written(r.user, r.loaded.last_edited_by, @),
              ![id].edit_count = NextEditCount(r.loaded)]
       /\ history' = Append(history,
              [order_id |-> id, edited_by |-> r.user,
               original_total |-> original_total, new_total |-> new_total])
       /\ audit' = AuditLog(audit, r.user, "ORDER_EDITED", 1)
    /\ req' = [req EXCEPT ![w] = Idle]
    /\ UNCHANGED <<now, counters, assignments, sessions, rooms, last_reset_date, cashier_pins, admin_pins>>

\* the payloads of the clients: one entry of item_edits per loaded item
EditInputs(item_edits) == UNION {[1 .. n -> item_edits] : n \in 0 .. MaxItems}

\* the entry that sends an item back as the menu priced it
Resend == [present |-> TRUE, total_price |-> MenuPrice(1), is_deleted |-> FALSE]

\* --------------------------------------------------------- transfer_orders
\* order_ids the model's clients send: every list of at most MaxOrders ids
TransferInputs == UNION {[1 .. n -> 1 .. MaxOrders] : n \in 0 .. MaxOrders}

\* the rows the handler's query returns: named in order_ids, delegated to the
\* caller, PENDING and tagged [WAITER ORDER]
orders_to_transfer(u, order_ids) ==
    {i \in OrderIds :
        /\ \E k \in 1 .. Len(order_ids) : order_ids[k] = i
        /\ orders[i].assigned_cashier_id = u
        /\ orders[i].status = "PENDING"
        /\ orders[i].notes.waiter_order}

\* transfer_orders' early returns without the validation of the target
transfer_orders_error_any_target(u, order_ids, target_cashier_id) ==
    IF UserRole(u) # "CASHIER" THEN "access_denied"
    ELSE IF order_ids = <<>> \/ target_cashier_id = None THEN "missing"
    ELSE IF Cardinality(orders_to_transfer(u, order_ids)) # Len(order_ids)
    THEN "cannot_transfer"
    ELSE ""

\* transfer_orders' early returns with the batch accepted when any of its
\* orders qualifies
transfer_orders_error_partial(u, order_ids, target_cashier_id) ==
    IF UserRole(u) # "CASHIER" THEN "access_denied"
    ELSE IF order_ids = <<>> \/ target_cashier_id = None THEN "missing"
    ELSE IF ~ (/\ target_cashier_id \in Users
               /\ UserBranch(target_cashier_id) = UserBranch(u)
               /\ UserRole(target_cashier_id) = "CASHIER")
    THEN "invalid_target"
    ELSE IF orders_to_transfer(u, order_ids) = {} THEN "cannot_transfer"
    ELSE ""

\* the early returns of transfer_orders; "" when none
transfer_orders_error(u, order_ids, target_cashier_id) ==
    IF UserRole(u) # "CASHIER" THEN "access_denied"
    ELSE IF order_ids = <<>> \/ target_cashier_id = None THEN "missing"
    ELSE IF ~ (/\ target_cashier_id \in Users
               /\ UserBranch(target_cashier_id) = UserBranch(u)
               /\ UserRole(target_cashier_id) = "CASHIER")
    THEN "invalid_target"
    ELSE IF Cardinality(orders_to_transfer(u, order_ids)) # Len(order_ids)
    THEN "cannot_transfer"
    ELSE ""

\* a transfer that also stamps the order as edited
transferred_as_edit(order, target_cashier_id) ==
    [order EXCEPT !.assigned_cashier_id = target_cashier_id,
                  !.notes.transferred = @ + 1,
                  !.edit_count = @ + 1]

\* the row of an order after its transfer: the new cashier and the
\* [TRANSFERRED] note
transferred(order, target_cashier_id) ==
    [order EXCEPT !.assigned_cashier_id = target_cashier_id,
                  !.notes.transferred = @ + 1]

transfer_orders(u, order_ids, target_cashier_id) ==
    IF transfer_orders_error(u, order_ids, target_cashier_id) # ""
    THEN UNCHANGED vars
    ELSE LET T == orders_to_transfer(u, order_ids)
         IN /\ \A i \in T : orders[i].notes.transferred < MaxTransfers
            /\ orders' = [i \in OrderIds |->
                   IF i \in T
                   THEN transferred(orders[i], target_cashier_id)
                   ELSE orders[i]]
            /\ audit' = AuditLog(audit, u, "ORDER_TRANSFERRED", Cardinality(T))
            /\ UNCHANGED <<now, counters, assignments, sessions, history, req, rooms, last_reset_date, cashier_pins, admin_pins>>

\* transfer_orders as the two workers serve it: up to the end of the query
\* for orders_to_transfer; the rows are read without a lock, loaded keeps
\* their notes
transfer_orders_read(u, order_ids, target_cashier_id) ==
    IF transfer_orders_error(u, order_ids, target_cashier_id) # ""
    THEN UNCHANGED vars
    ELSE /\ \E w \in Workers : req[w].op = "idle"
         /\ \A i \in orders_to_transfer(u, order_ids) :
                orders[i].notes.transferred < MaxTransfers
         /\ req' = [req EXCEPT ![FreeWorker] =
                [Idle EXCEPT !.op = "transfer_orders", !.user = u,
                             !.assigned = target_cashier_id,
                             !.items = order_ids,
                             !.loaded = [i \in OrderIds |-> orders[i].notes]]]
         /\ UNCHANGED <<now, orders, counters, assignments, sessions, history, audit,
                        rooms, last_reset_date, cashier_pins, admin_pins>>

\* the rest of it: the loop over the rows read and the commit, which writes
\* assigned_cashier_id and notes (the notes as read, and the transfer note)
\* of each row by its id, whatever its status has become
transfer_orders_commit(w) ==
    /\ req[w].op = "transfer_orders"
    /\ LET r == req[w]
           T == {r.items[k] : k \in 1 .. Len(r.items)}
       IN /\ orders' = [i \in OrderIds |->
                 IF i \in T
                 THEN transferred([orders[i] EXCEPT !.notes = r.loaded[i]], r.assigned)
                 ELSE orders[i]]
          /\ audit' = AuditLog(audit, r.user, "ORDER_TRANSFERRED", Cardinality(T))
    /\ req' = [req EXCEPT ![w] = Idle]
    /\ UNCHANGED <<now, counters, assignments, sessions, history, rooms,
                   last_reset_date, cashier_pins, admin_pins>>

\* --------------------------------------------------- clear_waiter_requests
\* the waiter orders of the caller not yet cleared (a cashier's query)
waiter_orders(u) ==
    {i \in OrderIds :
        /\ orders[i].assigned_cashier_id = u
        /\ orders[i].notes.waiter_order
        /\ ~ orders[i].cleared_from_waiter_requests}

paid_orders_to_clear(u) == {i \in waiter_orders(u) : orders[i].status = "PAID"}

clear_waiter_requests_error(u) ==
    IF UserRole(u) \notin {"CASHIER", "BRANCH_ADMIN", "SUPER_USER"} THEN "access_denied"
    ELSE IF paid_orders_to_clear(u) = {} THEN "no_paid_orders"
    ELSE ""

\* the write to one paid order as a cancellation instead of the flag
cleared_as_cancelled(order) == [order EXCEPT !.status = "CANCELLED"]

\* the write to one paid order
cleared(order) == [order EXCEPT !.cleared_from_waiter_requests = TRUE]

clear_waiter_requests(u) ==
    IF clear_waiter_requests_error(u) # ""
    THEN UNCHANGED vars
    ELSE /\ orders' = [i \in OrderIds |->
                IF i \in paid_orders_to_clear(u) THEN cleared(orders[i])
                ELSE orders[i]]
         /\ UNCHANGED <<now, counters, assignments, sessions, history, audit, req, rooms, last_reset_date, cashier_pins, admin_pins>>

\* ------------------------------------------------ daily session and report
\* PENDING waiter orders assigned to the cashier
unpaid_waiter_orders(u) ==
    Cardinality({i \in OrderIds :
        /\ orders[i].assigned_cashier_id = u
        /\ orders[i].notes.waiter_order
        /\ orders[i].status = "PENDING"})

mark_daily_report_printed(u) ==
    IF UserRole(u) # "CASHIER"
    THEN UNCHANGED vars
    ELSE LET s1 == get_or_create_today_session(sessions, orders, u)
             i == ActiveSession(s1, u)
             was_already_printed == s1[i].daily_report_printed
         IN /\ sessions' = mark_report_printed(s1, i, now)
            /\ audit' = IF was_already_printed THEN audit
                        ELSE AuditLog(audit, u, "DAILY_REPORT_MARKED", 1)
            /\ UNCHANGED <<now, orders, counters, assignments, history, req, rooms, last_reset_date, cashier_pins, admin_pins>>

\* mark_daily_report_printed as the two workers serve it: up to the read of
\* session.daily_report_printed; get_or_create_today_session has committed
\* its row by then
mark_daily_report_printed_read(u) ==
    IF UserRole(u) # "CASHIER"
    THEN UNCHANGED vars
    ELSE LET s1 == get_or_create_today_session(sessions, orders, u)
             i == ActiveSession(s1, u)
         IN /\ \E w \in Workers : req[w].op = "idle"
            /\ sessions' = s1
            /\ req' = [req EXCEPT ![FreeWorker] =
                   [Idle EXCEPT !.op = "mark_daily_report_printed", !.user = u,
                                !.read = i,
                                !.loaded = s1[i].daily_report_printed]]
            /\ UNCHANGED <<now, orders, counters, assignments, history, audit,
                           rooms, last_reset_date, cashier_pins, admin_pins>>

\* the rest of it: session.mark_report_printed(), and the audit row when the
\* flag was read as not set
mark_daily_report_printed_commit(w) ==
    /\ req[w].op = "mark_daily_report_printed"
    /\ req' = [req EXCEPT ![w] = Idle]
    /\ sessions' = mark_report_printed(sessions, req[w].read, now)
    /\ audit' = IF req[w].loaded THEN audit
                ELSE AuditLog(audit, req[w].user, "DAILY_REPORT_MARKED", 1)
    /\ UNCHANGED <<now, orders, counters, assignments, history, rooms,
                   last_reset_date, cashier_pins, admin_pins>>

\* the report page: refused while unpaid waiter orders are assigned to the
\* cashier; otherwise the PDF is built and the session is marked
daily_report(u) ==
    IF UserRole(u) # "CASHIER" \/ unpaid_waiter_orders(u) > 0
    THEN UNCHANGED vars
    ELSE LET s1 == get_or_create_today_session(sessions, orders, u)
         IN /\ audit[<<u, "DAILY_REPORT_GENERATED">>] < MaxReports
            /\ sessions' = mark_report_printed(s1, ActiveSession(s1, u), now)
            /\ audit' = AuditLog(audit, u, "DAILY_REPORT_GENERATED", 1)
            /\ UNCHANGED <<now, orders, counters, assignments, history, req, rooms, last_reset_date, cashier_pins, admin_pins>>

\* the report time of the latest session of the cashier today that has
\* daily_report_printed and a report_printed_at; None when there is none
last_report_time(u) ==
    LET S == {i \in 1 .. Len(sessions) :
                 /\ sessions[i].cashier_id = u
                 /\ sessions[i].daily_report_printed
                 /\ sessions[i].report_printed_at # None}
    IN IF S = {} THEN None
       ELSE LET m == CHOOSE i \in S :
                       \A j \in S : sessions[j].report_printed_at
                                       <= sessions[i].report_printed_at
            IN sessions[m].report_printed_at

\* orders created by or assigned to the cashier after the last report
orders_after_report(u) ==
    Cardinality({i \in OrderIds :
        /\ orders[i].cashier_id = u \/ orders[i].assigned_cashier_id = u
        /\ last_report_time(u) # None => orders[i].created_at > last_report_time(u)})

\* steps 4 and 5 with the logout gated on the report alone
logout_decision_report_only(after_report, unpaid) ==
    LET needs_report == after_report > 0
    IN [can_logout |-> ~ needs_report,
        action_required |-> IF needs_report THEN "report" ELSE "none",
        orders_after_report |-> after_report,
        unpaid_waiter_orders |-> unpaid]

\* the response of check_logout_permission, steps 4 and 5
logout_decision(after_report, unpaid) ==
    LET needs_report == after_report > 0
        has_unpaid_waiter_orders == unpaid > 0
    IN [can_logout |-> ~ needs_report /\ ~ has_unpaid_waiter_orders,
        action_required |->
            IF needs_report /\ has_unpaid_waiter_orders THEN "both"
            ELSE IF needs_report /\ ~ has_unpaid_waiter_orders THEN "report"
            ELSE IF ~ needs_report /\ has_unpaid_waiter_orders
            THEN "waiter_orders_then_report"
            ELSE "none",
        orders_after_report |-> after_report,
        unpaid_waiter_orders |-> unpaid]

\* the response of check_logout_permission for a user
check_logout_response(u) ==
    IF UserRole(u) # "CASHIER"
    THEN [can_logout |-> TRUE, action_required |-> "none",
          orders_after_report |-> 0, unpaid_waiter_orders |-> 0]
    ELSE logout_decision(orders_after_report(u), unpaid_waiter_orders(u))

\* the handler: a read-only query
check_logout_permission(u) ==
    /\ check_logout_response(u).can_logout \in BOOLEAN
    /\ UNCHANGED vars

\* the answer of check_logout_permission when one of its queries raises
\* (raises = TRUE: the except branch) or none does
check_logout_answer(u, raises) ==
    IF UserRole(u) = "CASHIER" /\ raises
    THEN [can_logout |-> TRUE, action_required |-> "none",
          orders_after_report |-> 0, unpaid_waiter_orders |-> 0]
    ELSE check_logout_response(u)

\* --------------------------------------------------------------- PIN codes
\* the PINs of four digits the clients of the model send, and one that is
\* not of four digits
Pins == {1234, 5678}
PinInputs == Pins \cup {12}

\* len(pin) == 4 and pin.isdigit()
pin_format_ok(pin) == pin >= 1000 /\ pin <= 9999

\* werkzeug's salted hash: the salt is drawn at random by
\* generate_password_hash and kept beside the digest; Digest stands for the
\* key derivation, one-to-one on the PINs of a salt and never a PIN itself
Salts == {1, 2}
Digest(salt, pin) == 10000 + ((pin * 7 + salt * 13) % 10007)
generate_password_hash(salt, pin) == [salt |-> salt, digest |-> Digest(salt, pin)]
check_password_hash(pwhash, pin) == Digest(pwhash.salt, pin) = pwhash.digest

\* a scope without a row in cashier_pins / admin_pin_codes
NoPin == [present |-> FALSE, pin_code_hash |-> [salt |-> 0, digest |-> 0],
          is_active |-> FALSE]
NoAdminPin == [present |-> FALSE, pin_code_hash |-> [salt |-> 0, digest |-> 0],
               pin_code |-> None, is_active |-> FALSE]

\* verify_cashier_pin answering for a disabled record too
verify_cashier_pin_inactive(cashier_id, branch_id, pin_code) ==
    /\ cashier_id \in Cashiers
    /\ branch_id = UserBranch(cashier_id)
    /\ cashier_pins[cashier_id].present
    /\ check_password_hash(cashier_pins[cashier_id].pin_code_hash, pin_code)

\* CashierPin.verify_cashier_pin: the active row of the cashier and branch,
\* then check_pin; False without such a row
verify_cashier_pin(cashier_id, branch_id, pin_code) ==
    /\ cashier_id \in Cashiers
    /\ branch_id = UserBranch(cashier_id)
    /\ cashier_pins[cashier_id].present
    /\ cashier_pins[cashier_id].is_active
    /\ check_password_hash(cashier_pins[cashier_id].pin_code_hash, pin_code)

\* cashier.set_pin: the row of the caller is created or overwritten and
\* made active
set_pin(u, new_pin, confirm_pin, salt) ==
    IF UserRole(u) # "CASHIER" \/ ~ pin_format_ok(new_pin) \/ new_pin # confirm_pin
    THEN UNCHANGED vars
    ELSE /\ cashier_pins' = [cashier_pins EXCEPT ![u] =
                [present |-> TRUE,
                 pin_code_hash |-> generate_password_hash(salt, new_pin),
                 is_active |-> TRUE]]
         /\ UNCHANGED <<now, orders, counters, assignments, sessions, history, audit,
                        req, rooms, last_reset_date, admin_pins>>

\* cashier.change_pin: after the current PIN verifies, the hash is replaced
change_pin(u, current_pin, new_pin, confirm_pin, salt) ==
    IF \/ UserRole(u) # "CASHIER"
       \/ ~ pin_format_ok(current_pin) \/ ~ pin_format_ok(new_pin)
       \/ new_pin # confirm_pin
       \/ ~ verify_cashier_pin(u, UserBranch(u), current_pin)
    THEN UNCHANGED vars
    ELSE /\ cashier_pins' = [cashier_pins EXCEPT
                ![u].pin_code_hash = generate_password_hash(salt, new_pin)]
         /\ UNCHANGED <<now, orders, counters, assignments, sessions, history, audit,
                        req, rooms, last_reset_date, admin_pins>>

\* cashier.disable_pin: after the current PIN verifies, the row is made
\* inactive
disable_pin(u, current_pin) ==
    IF \/ UserRole(u) # "CASHIER"
       \/ ~ pin_format_ok(current_pin)
       \/ ~ verify_cashier_pin(u, UserBranch(u), current_pin)
    THEN UNCHANGED vars
    ELSE /\ cashier_pins' = [cashier_pins EXCEPT ![u].is_active = FALSE]
         /\ UNCHANGED <<now, orders, counters, assignments, sessions, history, audit,
                        req, rooms, last_reset_date, admin_pins>>

\* AdminPinCode.set_pin: the hash, and the PIN itself in the legacy column
admin_set_pin(row, salt, pin_code) ==
    [row EXCEPT !.pin_code_hash = generate_password_hash(salt, pin_code),
                !.pin_code = pin_code]

\* AdminPinCode.check_pin: the hash when the row has one, else the legacy
\* column compared as it is
admin_check_pin(row, pin_code) ==
    IF row.pin_code_hash.digest # 0
    THEN check_password_hash(row.pin_code_hash, pin_code)
    ELSE IF row.pin_code # None THEN row.pin_code = pin_code
    ELSE FALSE

\* admin.save_pin_settings: the order editing PIN of the branch is created or
\* overwritten and made active
save_pin_settings(branch_id, order_editing_pin, salt) ==
    IF ~ pin_format_ok(order_editing_pin)
    THEN UNCHANGED vars
    ELSE /\ admin_pins' = [admin_pins EXCEPT ![branch_id] =
                admin_set_pin([admin_pins[branch_id] EXCEPT !.present = TRUE,
                                                            !.is_active = TRUE],
                              salt, order_editing_pin)]
         /\ UNCHANGED <<now, orders, counters, assignments, sessions, history, audit,
                        req, rooms, last_reset_date, cashier_pins>>

\* assign_cashier_to_waiter with the PIN the waiter typed: the format test
\* of the handler, then CashierPin.verify_cashier_pin
assign_cashier_to_waiter_pin(u, cashier_id, cashier_pin) ==
    assign_cashier_to_waiter(u, cashier_id,
        /\ pin_format_ok(cashier_pin)
        /\ verify_cashier_pin(cashier_id, UserBranch(u), cashier_pin))

\* -------------------------------------------------------- cashier sessions
\* a new CashierSession row of cashier c, as both creators build it
NewSession(ords, c) ==
    [cashier_id |-> c,
     initial_order_count |-> TodayOrderCount(ords, c),
     current_order_count |-> TodayOrderCount(ords, c),
     daily_report_printed |-> FALSE,
     report_printed_at |-> None,
     is_active |-> TRUE]

\* ensure_cashier_session up to its SELECT of the active session of today;
\* the worker keeps what the query returned (a row id, or None)
ensure_cashier_session(u) ==
    IF UserRole(u) # "CASHIER"
    THEN UNCHANGED vars
    ELSE /\ \E w \in Workers : req[w].op = "idle"
         /\ Len(sessions) < MaxSessions
         /\ req' = [req EXCEPT ![FreeWorker] =
                [Idle EXCEPT !.op = "ensure_cashier_session", !.user = u,
                             !.read = ActiveSession(sessions, u)]]
         /\ UNCHANGED <<now, orders, counters, assignments, sessions, history, audit,
                        rooms, last_reset_date, cashier_pins, admin_pins>>

\* the rest of ensure_cashier_session: update_order_count on the row found,
\* or the INSERT of a new row, and the commit
ensure_cashier_session_commit(w) ==
    /\ req[w].op = "ensure_cashier_session"
    /\ req' = [req EXCEPT ![w] = Idle]
    /\ sessions' = IF req[w].read # None
                   THEN update_order_count(sessions, req[w].read,
                                           TodayOrderCount(orders, req[w].user))
                   ELSE Append(sessions, NewSession(orders, req[w].user))
    /\ UNCHANGED <<now, orders, counters, assignments, history, audit, rooms,
                   last_reset_date, cashier_pins, admin_pins>>

\* CashierSession.get_or_create_today_session called by a request of cashier
\* c, up to its SELECT
get_or_create_today_session_select(c) ==
    /\ UserRole(c) = "CASHIER"
    /\ \E w \in Workers : req[w].op = "idle"
    /\ Len(sessions) < MaxSessions
    /\ req' = [req EXCEPT ![FreeWorker] =
           [Idle EXCEPT !.op = "get_or_create_today_session", !.user = c,
                        !.read = ActiveSession(sessions, c)]]
    /\ UNCHANGED <<now, orders, counters, assignments, sessions, history, audit,
                   rooms, last_reset_date, cashier_pins, admin_pins>>

\* the rest of get_or_create_today_session: the row found is returned, or a
\* new row is added and committed
get_or_create_today_session_insert(w) ==
    /\ req[w].op = "get_or_create_today_session"
    /\ req' = [req EXCEPT ![w] = Idle]
    /\ sessions' = IF req[w].read # None THEN sessions
                   ELSE Append(sessions, NewSession(orders, req[w].user))
    /\ UNCHANGED <<now, orders, counters, assignments, history, audit, rooms,
                   last_reset_date, cashier_pins, admin_pins>>

\* ---------------------------------------------------------- counter resets
\* reset_counter with no row created for a branch that has none
reset_counter_row_existing(read) == IF read = NoRow THEN NoRow ELSE 0

\* OrderCounter.reset_counter: the current_counter of the row it leaves,
\* updated when the SELECT found one (read), inserted when it found none
reset_counter_row(read) == IF read # NoRow THEN 0 ELSE 0

\* OrderCounter.reset_all_counters: one UPDATE over the rows of the table
reset_all_counters_row(read) == IF read = NoRow THEN NoRow ELSE 0

\* superuser.reset_branch_counter: get_or_404 of the branch, reset_counter,
\* commit, the audit row, commit
reset_branch_counter(branch_id) ==
    IF branch_id \notin Branches
    THEN UNCHANGED vars
    ELSE /\ audit[<<SuperUser, "RESET_BRANCH_COUNTER">>] < MaxResets
         /\ counters' = [counters EXCEPT ![branch_id] = reset_counter_row(@)]
         /\ last_reset_date' = [last_reset_date EXCEPT ![branch_id] = now]
         /\ audit' = AuditLog(audit, SuperUser, "RESET_BRANCH_COUNTER", 1)
         /\ UNCHANGED <<now, orders, assignments, sessions, history, req, rooms, cashier_pins, admin_pins>>

\* superuser.reset_counters: reset_all_counters, commit, the audit row, commit
reset_counters ==
    /\ audit[<<SuperUser, "RESET_ORDER_COUNTERS">>] < MaxResets
    /\ counters' = [b \in Branches |-> reset_all_counters_row(counters[b])]
    /\ last_reset_date' = [b \in Branches |->
            IF counters[b] = NoRow THEN last_reset_date[b] ELSE now]
    /\ audit' = AuditLog(audit, SuperUser, "RESET_ORDER_COUNTERS", 1)
    /\ UNCHANGED <<now, orders, assignments, sessions, history, req, rooms, cashier_pins, admin_pins>>

\* -------------------------------------------------------- real-time events
\* the name of a room: f'branch_{id}', f'cashier_{id}', f'waiter_{id}'
Room(kind, id) == <<kind, id>>

OrderEvents == {"new_order", "order_updated", "new_waiter_request",
                "waiter_order_updated"}

\* create_order's emits with a waiter treated as a cashier: the first event
\* goes to the branch room
create_order_publish_broadcast(u, is_new_order, assigned_cashier_id, has_table) ==
    LET first == IF is_new_order THEN "new_order" ELSE "order_updated"
        second == IF is_new_order THEN "new_waiter_request"
                  ELSE "waiter_order_updated"
    IN  {[event |-> first, room |-> Room("branch", UserBranch(u))]}
        \cup (IF /\ UserRole(u) = "WAITER"
                 /\ assigned_cashier_id \in Cashiers
                 /\ UserBranch(assigned_cashier_id) = UserBranch(u)
              THEN {[event |-> second, room |-> Room("cashier", assigned_cashier_id)]}
              ELSE {})

\* the events create_order emits after its commit, each with its room;
\* assigned_cashier_id is the handler's local variable at that point
create_order_publish(u, is_new_order, assigned_cashier_id, has_table) ==
    LET first == IF is_new_order THEN "new_order" ELSE "order_updated"
        second == IF is_new_order THEN "new_waiter_request"
                  ELSE "waiter_order_updated"
    IN  (IF UserRole(u) = "WAITER"
         THEN {[event |-> first, room |-> Room("waiter", u)]}
              \cup (IF is_new_order /\ has_table
                    THEN {[event |-> "table_status_update",
                           room |-> Room("branch", UserBranch(u))]}
                    ELSE {})
         ELSE {[event |-> first, room |-> Room("branch", UserBranch(u))]})
        \cup (IF /\ UserRole(u) = "WAITER"
                 /\ assigned_cashier_id # None
                 /\ assigned_cashier_id \in Cashiers
                 /\ UserBranch(assigned_cashier_id) = UserBranch(u)
              THEN {[event |-> second, room |-> Room("cashier", assigned_cashier_id)]}
              ELSE {})

\* what the append path publishes: the cashier is the one stored in the order
create_order_append_publish(u, ex, has_table) ==
    create_order_publish(u, FALSE, orders[ex].assigned_cashier_id, has_table)

\* what the request of worker w publishes after the INSERT: the cashier is
\* the waiter's assignment read by the handler, or the cashier's payload
create_order_commit_publish(w, assigned_cashier_id, has_table) ==
    create_order_publish(req[w].user, TRUE,
        IF UserRole(req[w].user) = "WAITER" THEN req[w].assigned
        ELSE assigned_cashier_id, has_table)

\* The answers of the handlers that publish after their commit.  Each emit
\* stands inside the handler's try; when it raises (emit_raises) the except
\* branch runs: db.session.rollback(), which finds nothing uncommitted, and
\* the answer success: False.
Success == [success |-> TRUE]
Failure == [success |-> FALSE]

create_order_commit_response(w, emit_raises) ==
    IF req[w].read = NoRow /\ counters[UserBranch(req[w].user)] # NoRow THEN Failure
    ELSE IF emit_raises THEN Failure
    ELSE Success

create_order_append_response(u, items, existing_order_id, emit_raises) ==
    IF create_order_error(u, items, TRUE, existing_order_id) # "" THEN Failure
    ELSE IF emit_raises THEN Failure
    ELSE Success

mark_order_paid_response(u, order_id, emit_raises) ==
    IF mark_order_paid_error(u, order_id) # "" THEN Failure
    ELSE IF emit_raises THEN Failure
    ELSE Success

\* order_edited_by_cashier is emitted for an order with a table edited by a
\* cashier
save_order_changes_commit_response(w, has_table, emit_raises) ==
    IF has_table /\ UserRole(req[w].user) = "CASHIER" /\ emit_raises THEN Failure
    ELSE Success

transfer_orders_response(u, order_ids, target_cashier_id, emit_raises) ==
    IF transfer_orders_error(u, order_ids, target_cashier_id) # "" THEN Failure
    ELSE IF emit_raises THEN Failure
    ELSE Success

\* the room names a client of the model sends in a 'join'; any string is
\* accepted, branch 2 stands for a branch the users are not of
ForeignBranch == 2
RoomInputs == {Room("branch", b) : b \in Branches \cup {ForeignBranch}}
              \cup {Room("cashier", u) : u \in Cashiers}
              \cup {Room("waiter", u) : u \in Users \ Cashiers}

\* the rooms on_join adds by itself for the role of the user
auto_join(u) ==
    IF UserRole(u) = "CASHIER"
    THEN {Room("cashier", u), Room("branch", UserBranch(u))}
    ELSE IF UserRole(u) = "WAITER"
    THEN {Room("waiter", u), Room("branch", UserBranch(u))}
    ELSE {}

\* on_join: join_room(data['room']) first, then the rooms of the role
on_join(u, room) ==
    /\ rooms' = [rooms EXCEPT ![u] = @ \cup {room} \cup auto_join(u)]
    /\ UNCHANGED <<now, orders, counters, assignments, sessions, history, audit, req, last_reset_date, cashier_pins, admin_pins>>

\* a disconnect: the server drops the client from every room
on_disconnect(u) ==
    /\ rooms' = [rooms EXCEPT ![u] = {}]
    /\ UNCHANGED <<now, orders, counters, assignments, sessions, history, audit, req, last_reset_date, cashier_pins, admin_pins>>

\* ------------------------------------------------------------------ logout
\* auth.logout: the audit row, then logout_user(); no test of the day's
\* orders or report
logout(u) ==
    /\ audit[<<u, "logout">>] < MaxLogouts
    /\ audit' = AuditLog(audit, u, "logout", 1)
    /\ UNCHANGED <<now, orders, counters, assignments, sessions, history, req, rooms, last_reset_date, cashier_pins, admin_pins>>

\* ------------------------------------------------------------------ system
Init ==
    /\ now = 1
    /\ orders = <<>>
    /\ counters = [b \in Branches |-> NoRow]
    /\ assignments = <<>>
    /\ sessions = <<>>
    /\ history = <<>>
    /\ audit = [k \in (Users \cup {SuperUser}) \X AuditActions |-> 0]
    /\ req = [w \in Workers |-> Idle]
    /\ rooms = [u \in Users |-> {}]
    /\ last_reset_date = [b \in Branches |-> None]
    /\ cashier_pins = [c \in Cashiers |-> NoPin]
    /\ admin_pins = [b \in Branches |-> NoAdminPin]

AllIdle == \A w \in Workers : req[w].op = "idle"

\* ================================================================== claims
\* the OrderEditHistory rows that reference an order
HistoryRows(i) == {k \in 1 .. Len(history) : history[k].order_id = i}

Terminal(order) == order.status \in {"PAID", "CANCELLED"}

\* C1: no two committed orders of one branch carry the same order_counter,
\* under any interleaving of concurrent create_order requests.
C1_UniqueOrderCounter ==
    \A i, j \in OrderIds :
        (i # j /\ orders[i].branch_id = orders[j].branch_id)
            => orders[i].order_counter # orders[j].order_counter

\* a waiter without an assignment row
Unassigned(u) ==
    UserRole(u) = "WAITER" /\ get_assignment_for_waiter(u, UserBranch(u)) = None

\* the request passes create_order's validation of its payload
ValidOrderRequest(u, items, is_adding_items, existing_order_id) ==
    /\ items # <<>>
    /\ \A k \in 1 .. Len(items) : items[k] \in MenuItems
    /\ is_adding_items => existing_order(u, is_adding_items, existing_order_id) # None

C3_StatusTransitions ==
    [][/\ Len(orders') >= Len(orders)
       /\ \A i \in OrderIds :
            \/ orders'[i].status = orders[i].status
            \/ /\ orders[i].status = "PENDING"
               /\ orders'[i].status \in {"PAID", "CANCELLED"}]_vars

\* C3's case: an order that went from PENDING to PAID, was then edited and
\* cleared, and is still PAID, beside one that is still PENDING.
C3_Witness ==
    \E i, j \in OrderIds :
        /\ orders[i].notes.waiter_order
        /\ orders[i].status = "PAID"
        /\ orders[i].cleared_from_waiter_requests
        /\ orders[i].edit_count > 0
        /\ orders[j].status = "PENDING"
        /\ orders[j].notes.transferred > 0

NotTransferable(u, i) ==
    \/ orders[i].assigned_cashier_id # u
    \/ orders[i].status # "PENDING"
    \/ ~ orders[i].notes.waiter_order

\* C5: transfer_orders is all-or-nothing: when any id of the batch names an
\* order that is not delegated to the caller, not PENDING or not a waiter
\* order, the request fails, and no step that changes an order or an audit
\* entry is a transfer_orders of such a batch.
C5_TransferAllOrNothing ==
    /\ [](\A u \in Users, order_ids \in TransferInputs,
             target_cashier_id \in {None} \cup Users :
              (\E k \in 1 .. Len(order_ids) :
                   order_ids[k] \in OrderIds /\ NotTransferable(u, order_ids[k]))
                  => transfer_orders_error(u, order_ids, target_cashier_id) # "")
    /\ [][~ UNCHANGED <<orders, audit>> =>
              \A u \in Users, order_ids \in TransferInputs,
                 target_cashier_id \in {None} \cup Users :
                  ~ ((\E k \in 1 .. Len(order_ids) :
                         order_ids[k] \in OrderIds
                         /\ NotTransferable(u, order_ids[k]))
                     /\ transfer_orders(u, order_ids, target_cashier_id))]_vars

\* C5's case: a cashier holds a waiter order it could transfer and a second
\* one that is already PAID, so a batch naming both mixes the two.
C5_Witness ==
    \E u \in Cashiers, i, j \in OrderIds :
        /\ ~ NotTransferable(u, i)
        /\ orders[j].assigned_cashier_id = u
        /\ orders[j].notes.waiter_order
        /\ orders[j].status = "PAID"

\* C6: in every reachable state each order's edit_count equals the number of
\* OrderEditHistory rows that reference it, concurrent edits included.
C6_EditCountIsHistoryCount ==
    \A i \in OrderIds : orders[i].edit_count = Cardinality(HistoryRows(i))

\* a terminal order outside the edit exemption
NotExempt(order) ==
    /\ Terminal(order)
    /\ order.service_type \notin {"delivery", "take_away"}
    /\ order.payment_method # "card"

\* C7: save_order_changes on a terminal order whose service type is neither
\* delivery nor take_away and whose payment method is not card always fails,
\* and no step that changes an order (items, total_amount, edit_count,
\* last-edited stamps), the OrderEditHistory rows or the requests in flight
\* is a save_order_changes on such an order; no request that loaded such an
\* order is ever on its way to a commit.
C7_TerminalEditFails ==
    /\ [](\A u \in Users, order_id \in OrderIds, well_formed \in BOOLEAN :
              NotExempt(orders[order_id])
                  => save_order_changes_error(u, order_id, well_formed) # "")
    /\ [](\A w \in Workers :
              req[w].op = "save_order_changes" => ~ NotExempt(req[w].loaded))
    /\ [][~ UNCHANGED <<orders, history, audit, req>> =>
              \A u \in Users, order_id \in OrderIds, well_formed \in BOOLEAN :
                  ~ (NotExempt(orders[order_id])
                     /\ save_order_changes(u, order_id, well_formed))]_vars

\* C7's case: a PAID on_table order, which its own cashier asks to edit.
C7_Witness ==
    \E i \in OrderIds :
        /\ orders[i].status = "PAID"
        /\ orders[i].service_type = "on_table"
        /\ orders[i].cashier_id \in Cashiers
        /\ save_order_changes_error(orders[i].cashier_id, i, TRUE) = "paid_on_table"

PaidDelivery(order) == order.status = "PAID" /\ order.service_type = "delivery"

C9_MarkReportIdempotent ==
    [][\A u \in Cashiers :
          LET i == ActiveSession(sessions, u)
          IN (/\ i # None
              /\ sessions[i].daily_report_printed
              /\ audit[<<u, "DAILY_REPORT_MARKED">>] = 1
              /\ mark_daily_report_printed(u))
                 => /\ audit'[<<u, "DAILY_REPORT_MARKED">>] = 1
                    /\ sessions'[i].report_printed_at
                           = sessions[i].report_printed_at]_vars

\* the decision table of the logout check
LogoutTable(r, after_report, unpaid) ==
    /\ r.can_logout <=> (after_report = 0 /\ unpaid = 0)
    /\ (after_report > 0 /\ unpaid = 0) => r.action_required = "report"
    /\ (after_report = 0 /\ unpaid > 0)
           => r.action_required = "waiter_orders_then_report"
    /\ (after_report > 0 /\ unpaid > 0) => r.action_required = "both"

\* C10: for every pair (orders_after_report, unpaid_waiter_orders), those
\* computed for a cashier in a reachable state included,
\* check_logout_permission answers can_logout exactly when both are zero,
\* and otherwise 'report', 'waiter_orders_then_report' or 'both' as only the
\* first, only the second or both are positive.
C10_LogoutDecision ==
    /\ \A a, p \in 0 .. MaxOrders + 1 : LogoutTable(logout_decision(a, p), a, p)
    /\ \A u \in Cashiers :
           LogoutTable(check_logout_response(u), orders_after_report(u),
                       unpaid_waiter_orders(u))

\* C10's case: one cashier is asked for 'waiter_orders_then_report' (an
\* unpaid waiter order older than the report) while the other may log out
\* after a report.
C10_Witness ==
    \E u, v \in Cashiers :
        /\ orders_after_report(u) = 0
        /\ unpaid_waiter_orders(u) > 0
        /\ check_logout_response(u).action_required = "waiter_orders_then_report"
        /\ last_report_time(v) # None
        /\ check_logout_response(v).can_logout

\* a cashier the logout gate has to hold back
LogoutBlocked(u) == orders_after_report(u) > 0 \/ unpaid_waiter_orders(u) > 0

\* C11: while a cashier has orders since the last report or unpaid waiter
\* orders, no step is a logout of that cashier and the logout check does not
\* answer can_logout = true, whether or not the check raises.
C11_NoLogoutWhileBlocked ==
    [][\A u \in Cashiers :
          LogoutBlocked(u) =>
              /\ ~ logout(u)
              /\ \A raises \in BOOLEAN : ~ check_logout_answer(u, raises).can_logout]_vars

Waiters == {u \in Users : UserRole(u) = "WAITER"}

\* the rooms the order events of a set of emits go to
OrderEventRooms(emits) == {e.room : e \in {x \in emits : x.event \in OrderEvents}}

\* C12: a create_order of a waiter W, new order or append, publishes its
\* order events only to W's room and to the room of the cashier the order is
\* delegated to; the table status event alone goes to the branch room.
C12_WaiterEventsIsolated ==
    [][/\ \A w \in Workers, st \in ServiceTypeInputs, t \in BOOLEAN :
            ( /\ create_order_commit(w, st, None)
              /\ UserRole(req[w].user) = "WAITER"
              /\ Len(orders') = Len(orders) + 1 )
            => OrderEventRooms(create_order_commit_publish(w, None, t))
                 \subseteq {Room("waiter", req[w].user),
                            Room("cashier", orders'[Len(orders')].assigned_cashier_id)}
       /\ \A u \in Waiters, items \in ItemInputs, ex \in 1 .. MaxOrders, t \in BOOLEAN :
            ( /\ create_order_error(u, items, TRUE, ex) = ""
              /\ create_order(u, items, TRUE, ex) )
            => OrderEventRooms(create_order_append_publish(u, ex, t))
                 \subseteq {Room("waiter", u),
                            Room("cashier", orders'[ex].assigned_cashier_id)}]_vars

\* a waiter's order with items added stands delegated to a cashier whose
\* room the update goes to
C12_Witness ==
    \E i \in OrderIds :
        /\ orders[i].cashier_id \in Waiters
        /\ orders[i].notes.items_added
        /\ orders[i].assigned_cashier_id \in Cashiers
        /\ [event |-> "waiter_order_updated",
            room |-> Room("cashier", orders[i].assigned_cashier_id)]
               \in create_order_append_publish(orders[i].cashier_id, i, FALSE)

\* the rooms that match the identity of a user
OwnRooms(u) ==
    {Room("branch", UserBranch(u)),
     Room(IF UserRole(u) = "CASHIER" THEN "cashier" ELSE "waiter", u)}

\* C13: whatever 'join' requests were served, every client is a member only
\* of the branch room of its own branch and of the operator room of its own
\* id.
C13_OnlyOwnRooms == \A u \in Users : rooms[u] \subseteq OwnRooms(u)

\* C14: an emit that raises inside create_order, mark_order_paid,
\* save_order_changes or transfer_orders does not change the outcome: every
\* step in which one of them commits its change is answered with success,
\* whether or not the emit raises.
C14_PublishFailureSwallowed ==
    [][\A emit_raises \in BOOLEAN :
        /\ \A w \in Workers, st \in ServiceTypeInputs :
              (create_order_commit(w, st, None) /\ Len(orders') > Len(orders))
              => create_order_commit_response(w, emit_raises).success
        /\ \A u \in Users, order_id \in 1 .. MaxOrders :
              (mark_order_paid_error(u, order_id) = "" /\ mark_order_paid(u, order_id))
              => mark_order_paid_response(u, order_id, emit_raises).success
        /\ \A w \in Workers, has_table \in BOOLEAN :
              (req[w].op = "save_order_changes" /\ req'[w].op = "idle"
                 /\ Len(history') > Len(history))
              => save_order_changes_commit_response(w, has_table, emit_raises).success
        /\ \A u \in Cashiers, order_ids \in TransferInputs, c \in Cashiers :
              ( /\ transfer_orders_error(u, order_ids, c) = ""
                /\ transfer_orders(u, order_ids, c) )
              => transfer_orders_response(u, order_ids, c, emit_raises).success]_vars

\* C15: a create_order that fails after get_next_counter has run, at the
\* INSERT or at any later step, leaves the counter row and the Order rows as
\* they were before the call.
C15_FailedCreateChangesNothing ==
    [][\A w \in Workers, st \in ServiceTypeInputs, c \in {None} \cup Cashiers,
         emit_raises \in BOOLEAN :
          ( /\ create_order_commit(w, st, c)
            /\ ~ create_order_commit_response(w, emit_raises).success )
          => UNCHANGED <<counters, orders>>]_vars

\* C16: in every reachable state the total_amount of every order is the sum
\* of total_price over its items that are not deleted.
C16_TotalIsSumOfItems ==
    \A i \in OrderIds : orders[i].total_amount = SumPrices(orders[i].order_items)

\* C17: with no reset in between, the value get_next_counter returned to a
\* create_order that commits is greater than the value of every order of
\* the branch committed before it.
C17_CounterStrictlyIncreasing ==
    [][Len(orders') > Len(orders) =>
          \A i \in OrderIds :
              orders[i].branch_id = orders'[Len(orders')].branch_id
              => orders[i].order_counter < orders'[Len(orders')].order_counter]_vars

\* C18: a reset_counter(b) leaves the row of b at 0 with last_reset_date
\* stamped whether or not b had a row; reset_all_counters does so for every
\* branch that has a row; after either, the next get_next_counter(b) returns
\* 1: an order committed from a counter read as 0 or as absent is number 1.
C18_ResetThenOne ==
    [][/\ \A b \in Branches :
            reset_branch_counter(b)
            => /\ counters'[b] = 0
               /\ last_reset_date'[b] = now
               /\ get_next_counter(counters'[b]) = 1
       /\ reset_counters
            => \A b \in Branches :
                 /\ counters[b] # NoRow
                      => counters'[b] = 0 /\ last_reset_date'[b] = now
                 /\ get_next_counter(counters'[b]) = 1
       /\ \A b \in Branches :
            ( /\ Len(orders') > Len(orders)
              /\ orders'[Len(orders')].branch_id = b
              /\ counters[b] \in {0, NoRow} )
            => orders'[Len(orders')].order_counter = 1 /\ counters'[b] = 1]_vars

\* the branch's counter was reset after a first order, and the order created
\* next got number 1
C18_Witness ==
    /\ Len(orders) = 2
    /\ orders[1].order_counter = 1
    /\ orders[2].order_counter = 1
    /\ last_reset_date[1] # None
    /\ counters[1] = 1

\* C19: an order is created PENDING with paid_at unset when its creator is
\* a waiter, PAID with paid_at set to the time of creation when its creator
\* is a cashier, and with no other status.
C19_InitialStatus ==
    [][Len(orders') > Len(orders) =>
          LET o == orders'[Len(orders')]
          IN  /\ Len(orders') = Len(orders) + 1
              /\ UserRole(o.cashier_id) = "WAITER"
                    => o.status = "PENDING" /\ o.paid_at = None
              /\ UserRole(o.cashier_id) = "CASHIER"
                    => o.status = "PAID" /\ o.paid_at = now /\ o.paid_at # None]_vars

\* a waiter's new order and a cashier's new order stand side by side
C19_Witness ==
    \E i, j \in OrderIds :
        /\ UserRole(orders[i].cashier_id) = "WAITER"
        /\ orders[i].status = "PENDING" /\ orders[i].paid_at = None
        /\ UserRole(orders[j].cashier_id) = "CASHIER"
        /\ orders[j].status = "PAID" /\ orders[j].paid_at # None

\* C20: under every interleaving of get_or_create_today_session and
\* ensure_cashier_session calls, a cashier has at most one active
\* CashierSession row for the day.
C20_OneActiveSession ==
    \A c \in Cashiers :
        Cardinality({i \in 1 .. Len(sessions) :
                        sessions[i].cashier_id = c /\ sessions[i].is_active}) <= 1

\* C21: however the mark_daily_report_printed calls of a cashier interleave,
\* the day has at most one DAILY_REPORT_MARKED audit row of that cashier.
C21_OneMarkAuditRow ==
    \A c \in Cashiers : audit[<<c, "DAILY_REPORT_MARKED">>] <= 1

\* C22: a waiter and branch never have more than one assignment row; a set
\* leaves get_assignment_for_waiter at its target and overwrites the row in
\* place when there is one; a clear leaves it at null; nothing else changes
\* the table, so the answer is that of the latest set since the last clear.
C22_SingleAssignment ==
    /\ [](\A u \in Waiters, b \in Branches :
            Cardinality({i \in 1 .. Len(assignments) :
                            /\ assignments[i].waiter_id = u
                            /\ assignments[i].branch_id = b}) <= 1)
    /\ [][/\ \A u \in Waiters, c \in Cashiers :
               assign_cashier_to_waiter(u, c, TRUE)
               => /\ get_assignment_for_waiter(u, UserBranch(u))' = c
                  /\ (AssignmentRow(u, UserBranch(u)) # None
                       => Len(assignments') = Len(assignments))
          /\ \A u \in Waiters :
               (clear_assigned_cashier(u) /\ AssignmentRow(u, UserBranch(u)) # None)
               => get_assignment_for_waiter(u, UserBranch(u))' = None
          /\ assignments' # assignments
               => (\E u \in Waiters :
                     \/ clear_assigned_cashier(u)
                     \/ \E c \in Cashiers : assign_cashier_to_waiter(u, c, TRUE))]_vars

\* the waiter's single row names cashier 2 (set, or set again over cashier 1)
C22_Witness ==
    /\ Len(assignments) = 1
    /\ \E u \in Waiters : get_assignment_for_waiter(u, UserBranch(u)) = 2

\* C23: verify_cashier_pin answers true exactly for the PIN last stored in
\* an active record: after a set_pin or change_pin that stored p it is true
\* for p alone, after a disable_pin for no PIN, for a cashier without an
\* active record or a foreign branch for no PIN, and no other step changes
\* the record.
C23_VerifyLatestPin ==
    /\ [](\A c \in Cashiers, q \in PinInputs :
            /\ ~ verify_cashier_pin(c, ForeignBranch, q)
            /\ (~ cashier_pins[c].present \/ ~ cashier_pins[c].is_active)
                 => ~ verify_cashier_pin(c, UserBranch(c), q))
    /\ [][\A c \in Cashiers :
            /\ \A p \in Pins, salt \in Salts :
                 set_pin(c, p, p, salt)
                 => \A q \in PinInputs : verify_cashier_pin(c, UserBranch(c), q)' = (q = p)
            /\ \A cur \in Pins, p \in Pins, salt \in Salts :
                 (verify_cashier_pin(c, UserBranch(c), cur) /\ change_pin(c, cur, p, p, salt))
                 => \A q \in PinInputs : verify_cashier_pin(c, UserBranch(c), q)' = (q = p)
            /\ \A cur \in Pins :
                 (verify_cashier_pin(c, UserBranch(c), cur) /\ disable_pin(c, cur))
                 => \A q \in PinInputs : ~ verify_cashier_pin(c, UserBranch(c), q)'
            /\ cashier_pins'[c] # cashier_pins[c]
                 => \/ \E p \in Pins, salt \in Salts : set_pin(c, p, p, salt)
                    \/ \E cur \in Pins, p \in Pins, salt \in Salts :
                         verify_cashier_pin(c, UserBranch(c), cur)
                           /\ change_pin(c, cur, p, p, salt)
                    \/ \E cur \in Pins :
                         verify_cashier_pin(c, UserBranch(c), cur) /\ disable_pin(c, cur)]_vars

\* a cashier's PIN was set, disabled and set again: the record is active
\* under a salt and PIN other than cashier 2's
C23_Witness ==
    /\ cashier_pins[1].present /\ cashier_pins[1].is_active
    /\ verify_cashier_pin(1, UserBranch(1), 5678)
    /\ cashier_pins[2].present /\ ~ cashier_pins[2].is_active

\* C24: no PIN record, of a cashier or of a branch, holds a PIN as it was
\* typed in any of its fields: the hash fields hold digests and the legacy
\* pin_code column of the branch's record stays empty.
C24_NoRawPinStored ==
    /\ \A c \in Cashiers :
          cashier_pins[c].present => cashier_pins[c].pin_code_hash.digest \notin PinInputs
    /\ \A b \in Branches :
          admin_pins[b].present
          => /\ admin_pins[b].pin_code_hash.digest \notin PinInputs
             /\ admin_pins[b].pin_code = None

\* C25: a step that transfers orders (it writes ORDER_TRANSFERRED audit
\* rows) changes of every order at most assigned_cashier_id and notes, adds
\* and removes no order and leaves the edit history as it was.
C25_TransferFrame ==
    [][(\E u \in Users : audit'[<<u, "ORDER_TRANSFERRED">>] # audit[<<u, "ORDER_TRANSFERRED">>])
       => /\ Len(orders') = Len(orders)
          /\ history' = history
          /\ \A i \in OrderIds :
                [orders'[i] EXCEPT !.assigned_cashier_id = orders[i].assigned_cashier_id,
                                   !.notes = orders[i].notes] = orders[i]]_vars

\* an order with added items was handed to the other cashier: its counter,
\* status and total stand as created, and it was never edited
C25_Witness ==
    \E i \in OrderIds :
        /\ orders[i].notes.transferred = 1
        /\ orders[i].notes.items_added
        /\ orders[i].assigned_cashier_id \in Cashiers
        /\ orders[i].edit_count = 0
        /\ orders[i].last_edited_at = None
        /\ HistoryRows(i) = {}

\* C26: no step removes an item row of an order: the rows of every order
\* only grow in number; and an edit flags as deleted each item its request
\* leaves out or sends with is_deleted, and stores a total without them.
C26_ItemsNeverDeleted ==
    [][/\ \A i \in OrderIds :
            /\ i <= Len(orders')
            /\ Len(orders'[i].order_items) >= Len(orders[i].order_items)
       /\ \A w \in Workers :
            (req[w].op = "save_order_changes" /\ req'[w].op = "idle")
            => \A edits \in EditInputs(ItemEdits), new_price \in {None} \cup EditPrices :
                 save_order_changes_commit(w, edits, new_price, 0)
                 => /\ \A k \in 1 .. Len(edits) :
                         (~ edits[k].present \/ edits[k].is_deleted)
                         => orders'[req[w].order_id].order_items[k].is_deleted
                    /\ orders'[req[w].order_id].total_amount
                         = SumPrices(orders'[req[w].order_id].order_items)]_vars

\* an edited order keeps a row flagged deleted beside a row that counts
C26_Witness ==
    \E i \in OrderIds :
        /\ orders[i].edit_count = 1
        /\ Len(orders[i].order_items) = 2
        /\ orders[i].order_items[1].is_deleted
        /\ ~ orders[i].order_items[2].is_deleted
        /\ orders[i].total_amount = orders[i].order_items[2].total_price

C28_PaidOrderKeepsCashier ==
    [][\A i \in OrderIds :
          orders[i].status = "PAID"
          => orders'[i].assigned_cashier_id = orders[i].assigned_cashier_id]_vars

\* C29: no step marks a session of a cashier as printed (sets
\* daily_report_printed or stamps report_printed_at) while a PENDING waiter
\* order is assigned to that cashier.
C29_NoReportWithUnpaidOrders ==
    [][\A c \in Cashiers, k \in 1 .. Len(sessions') :
          (/\ sessions'[k].cashier_id = c
           /\ sessions'[k].daily_report_printed
           /\ \/ k > Len(sessions)
              \/ ~ sessions[k].daily_report_printed
              \/ sessions'[k].report_printed_at # sessions[k].report_printed_at)
          => unpaid_waiter_orders(c) = 0]_vars

Creators == {1, 3}

post_create_order ==
    \E u \in Creators, items \in ItemInputs, is_adding_items \in BOOLEAN,
       existing_order_id \in 0 .. MaxOrders :
        create_order(u, items, is_adding_items, existing_order_id)

commit_create_order(service_types, assigned_ids) ==
    \E w \in Workers, service_type \in service_types,
       assigned_cashier_id \in assigned_ids :
        create_order_commit(w, service_type, assigned_cashier_id)

post_mark_order_paid ==
    \E u \in Users, order_id \in 1 .. MaxOrders + 1 : mark_order_paid(u, order_id)

post_assign_cashier_to_waiter ==
    \E u \in Users, cashier_id \in {None} \cup Users, is_valid \in BOOLEAN :
        assign_cashier_to_waiter(u, cashier_id, is_valid)

post_clear_assigned_cashier == \E u \in Users : clear_assigned_cashier(u)

post_save_order_changes ==
    \E u \in Users, order_id \in 1 .. MaxOrders + 1, well_formed \in BOOLEAN :
        save_order_changes(u, order_id, well_formed)

commit_save_order_changes(item_edits, prices, totals) ==
    \E w \in Workers, edits \in EditInputs(item_edits),
       new_price \in {None} \cup prices, original_total \in totals :
        save_order_changes_commit(w, edits, new_price, original_total)

post_transfer_orders ==
    \E u \in Users, order_ids \in TransferInputs,
       target_cashier_id \in {None} \cup Users :
        transfer_orders(u, order_ids, target_cashier_id)

post_clear_waiter_requests == \E u \in Users : clear_waiter_requests(u)

post_mark_daily_report_printed == \E u \in Users : mark_daily_report_printed(u)

get_daily_report == \E u \in Users : daily_report(u)

get_check_logout_permission == \E u \in Users : check_logout_permission(u)

get_logout == \E u \in Users : logout(u)

post_reset_branch_counter ==
    \E branch_id \in Branches \cup {ForeignBranch} : reset_branch_counter(branch_id)

post_reset_counters == reset_counters

post_ensure_cashier_session == \E u \in Users : ensure_cashier_session(u)

commit_ensure_cashier_session == \E w \in Workers : ensure_cashier_session_commit(w)

call_get_or_create_today_session ==
    \E c \in Cashiers : get_or_create_today_session_select(c)

commit_get_or_create_today_session ==
    \E w \in Workers : get_or_create_today_session_insert(w)

begin_mark_daily_report_printed == \E u \in Users : mark_daily_report_printed_read(u)

commit_mark_daily_report_printed == \E w \in Workers : mark_daily_report_printed_commit(w)

socket_join == \E u \in Users, room \in RoomInputs : on_join(u, room)

socket_disconnect == \E u \in Users : on_disconnect(u)

\* ---------------------------------------------------------- specifications
\* The order lifecycle: every handler that writes an order, requests served
\* one at a time; an edit sends the items back as they are.
Next ==
    \/ AllIdle /\ post_assign_cashier_to_waiter
    \/ AllIdle /\ post_create_order
    \/ commit_create_order(ServiceTypeInputs, {None})
    \/ AllIdle /\ post_mark_order_paid
    \/ AllIdle /\ post_save_order_changes
    \/ commit_save_order_changes({Resend}, {}, {0})
    \/ AllIdle /\ post_transfer_orders
    \/ AllIdle /\ post_clear_waiter_requests

Spec == Init /\ [][Next]_vars

\* Order creation by NumWorkers workers at once.
NextCreate ==
    \/ post_assign_cashier_to_waiter
    \/ post_clear_assigned_cashier
    \/ post_create_order
    \/ commit_create_order(ServiceTypeInputs, {None} \cup Cashiers)

SpecCreate == Init /\ [][NextCreate]_vars

\* Order edits by NumWorkers workers at once, with every payload.
NextEdit ==
    \/ AllIdle /\ post_create_order
    \/ commit_create_order({"delivery"}, {None})
    \/ post_save_order_changes
    \/ commit_save_order_changes(ItemEdits, EditPrices, {0, MenuPrice(1)})

SpecEdit == Init /\ [][NextEdit]_vars

\* The daily session: orders, reports and the logout check as the clock runs,
\* requests served one at a time.
NextSession ==
    \/ Tick
    \/ AllIdle /\ post_assign_cashier_to_waiter
    \/ AllIdle /\ post_create_order
    \/ commit_create_order({"on_table"}, {None})
    \/ AllIdle /\ post_mark_order_paid
    \/ AllIdle /\ post_mark_daily_report_printed
    \/ AllIdle /\ get_daily_report
    \/ AllIdle /\ get_check_logout_permission

SpecSession == Init /\ [][NextSession]_vars

\* The end of a shift: orders, the marked report, the logout check and the
\* logout, requests served one at a time.
NextLogout ==
    \/ AllIdle /\ post_assign_cashier_to_waiter
    \/ AllIdle /\ post_create_order
    \/ commit_create_order({"on_table"}, {None})
    \/ AllIdle /\ post_mark_daily_report_printed
    \/ AllIdle /\ get_check_logout_permission
    \/ AllIdle /\ get_logout

SpecLogout == Init /\ [][NextLogout]_vars

\* The order counter over the days: orders, resets by the super user, time;
\* requests served one at a time.
NextReset ==
    \/ Tick
    \/ AllIdle /\ post_assign_cashier_to_waiter
    \/ AllIdle /\ post_create_order
    \/ commit_create_order({"on_table"}, {None})
    \/ AllIdle /\ post_reset_branch_counter
    \/ AllIdle /\ post_reset_counters

SpecReset == Init /\ [][NextReset]_vars

\* The cashier sessions of a day under two workers: the session requests
\* interleave; orders are created between them.
NextSessions ==
    \/ AllIdle /\ post_create_order
    \/ commit_create_order({"on_table"}, {None})
    \/ post_ensure_cashier_session
    \/ commit_ensure_cashier_session
    \/ call_get_or_create_today_session
    \/ commit_get_or_create_today_session

SpecSessions == Init /\ [][NextSessions]_vars

\* The marking of the daily report under two workers, with the orders of
\* the day and the clock.
NextMark ==
    \/ Tick
    \/ AllIdle /\ post_create_order
    \/ commit_create_order({"on_table"}, {None})
    \/ begin_mark_daily_report_printed
    \/ commit_mark_daily_report_printed

SpecMark == Init /\ [][NextMark]_vars

\* Transfers of delegated orders beside payments: the two workers serve the
\* transfers, a payment commits at any point between their steps.
NextTransfer ==
    \/ AllIdle /\ post_assign_cashier_to_waiter
    \/ AllIdle /\ post_create_order
    \/ commit_create_order({"on_table"}, {None} \cup Users)
    \/ post_mark_order_paid
    \/ \E u \in Cashiers, order_ids \in TransferInputs, target_cashier_id \in Users :
          transfer_orders_read(u, order_ids, target_cashier_id)
    \/ \E w \in Workers : transfer_orders_commit(w)

SpecTransfer == Init /\ [][NextTransfer]_vars

\* The PIN codes: the cashiers' PINs, the order editing PIN of the branch,
\* and the waiter's delegation, which a cashier's PIN confirms.
NextPin ==
    \/ \E u \in Users, new_pin \in PinInputs, confirm_pin \in PinInputs, salt \in Salts :
          set_pin(u, new_pin, confirm_pin, salt)
    \/ \E u \in Users, current_pin \in PinInputs, new_pin \in Pins, salt \in Salts :
          change_pin(u, current_pin, new_pin, new_pin, salt)
    \/ \E u \in Users, current_pin \in PinInputs : disable_pin(u, current_pin)
    \/ \E b \in Branches, pin \in PinInputs, salt \in Salts :
          save_pin_settings(b, pin, salt)
    \/ \E u \in Users, cashier_id \in {None, SuperUser} \cup Users, pin \in PinInputs :
          assign_cashier_to_waiter_pin(u, cashier_id, pin)
    \/ post_clear_assigned_cashier

SpecPin == Init /\ [][NextPin]_vars

\* The items of the orders: creation, appends and edits with every payload,
\* requests served one at a time.
NextItems ==
    \/ AllIdle /\ post_assign_cashier_to_waiter
    \/ AllIdle /\ post_create_order
    \/ commit_create_order(ServiceTypeInputs, {None})
    \/ AllIdle /\ post_save_order_changes
    \/ commit_save_order_changes(ItemEdits, EditPrices, {0})

SpecItems == Init /\ [][NextItems]_vars

\* The socket connections of the users: joins and disconnects.
NextJoin ==
    \/ socket_join
    \/ socket_disconnect

SpecJoin == Init /\ [][NextJoin]_vars

====
